---- MODULE Spec2Model ----
(***************************************************************************)
(* kmillet::sized_any<N>: a type-erased container with an N-byte buffer.   *)
(* The model follows include/kmillet/sized_any/sized_any.hpp: a container  *)
(* is a descriptor pointer (info) and a raw buffer (buff); the descriptor  *)
(* of the contained type T decides, from T and the capacity alone, whether *)
(* the buffer holds a T in place or a pointer to a heap-allocated T.       *)
(*                                                                         *)
(* The buffer is modelled by what its bytes hold, not by what the          *)
(* descriptor says they hold, so that a descriptor applied to bytes of     *)
(* another type is visible.  Undefined behaviour (a constructor or a       *)
(* destructor run on bytes that are not a live object of that type, a      *)
(* delete of something that is not a live block of that type) is recorded  *)
(* in ub, and what it reads or frees is drawn from junk, chosen freely by  *)
(* each action.  Execution stops at the first undefined behaviour.         *)
(***************************************************************************)
EXTENDS Integers, FiniteSets, Sequences, TLC

VARIABLES alive, cap, info, buff, heap, ub, last

vars == <<alive, cap, info, buff, heap, ub, last>>

-----------------------------------------------------------------------------
(* Bounds of the model *)

MaxVal == 2
MaxBlocks == 3

(* Capacities the containers are instantiated with *)

PtrSize == 8
CapSmall == 32
CapLarge == 64

Values == 1..MaxVal
Addr == 1..MaxBlocks
Caps == {CapSmall, CapLarge}
Cont == {"a", "b"}
Null == "null"

(* Contained types: Small fits everywhere; Mid fits only the large         *)
(* capacity; Thr has Mid's size but a move constructor that may throw;     *)
(* Big fits nowhere.                                                       *)
Void == "void"
Types == {"Small", "Mid", "Thr", "Big"}
Infos == Types \cup {Void}

(* What a read of bytes that are not what they are read as may yield: a   *)
(* value, and an address (0: one outside the modelled heap).              *)
Junk == [v : Values, p : 0..MaxBlocks]

-----------------------------------------------------------------------------
(* Type descriptors *)

Size(T) ==
    CASE T = "Small" -> 4
      [] T = "Mid"   -> 48
      [] T = "Thr"   -> 48
      [] T = "Big"   -> 96
      [] OTHER       -> 0

NothrowMove(T) == T # "Thr"

NeedsAlloc(T, c) ==
    IF T = Void THEN FALSE ELSE Size(T) > c \/ ~NothrowMove(T)

(* The types whose objects hold a pointer into their own storage, as a     *)
(* small-buffer-optimised string does: such an object is only valid where  *)
(* a constructor put it.                                                   *)
SelfRef(T) == T = "Mid"

-----------------------------------------------------------------------------
(* Buffer contents and heap blocks *)

(* self: the object's pointers into its own storage point where it is *)
Raw == [kind |-> "raw", ty |-> Void, v |-> 0, p |-> 0, self |-> TRUE]
Val(T, v) == [kind |-> "val", ty |-> T, v |-> v, p |-> 0, self |-> TRUE]
Ptr(p) == [kind |-> "ptr", ty |-> Void, v |-> 0, p |-> p, self |-> TRUE]

(* The bytes of a buffer copied to another address without a constructor: *)
(* an object that refers to its own storage still refers to the old one.   *)
Relocated(b) ==
    IF b.kind = "val" /\ SelfRef(b.ty) THEN [b EXCEPT !.self = FALSE] ELSE b

Free == [st |-> "free", ty |-> Void, v |-> 0, sz |-> 0]
Live(T, v, sz) == [st |-> "live", ty |-> T, v |-> v, sz |-> sz]
Dead(sz) == [st |-> "dead", ty |-> Void, v |-> 0, sz |-> sz]

(* The machine state one handler works on: the heap, the first undefined   *)
(* behaviour met, the numbers of new and delete expressions evaluated and  *)
(* of calls of a descriptor's move (nm), the number of live in-place       *)
(* objects left behind in a local buffer, whether the model ran out of     *)
(* addresses, and whether a junk value (jv) or a junk pointer (jp) was     *)
(* read.                                                                   *)
Machine(h) ==
    [heap |-> h, ub |-> "none", na |-> 0, nf |-> 0, nm |-> 0, lost |-> 0,
     full |-> FALSE, jv |-> FALSE, jp |-> FALSE]

(* One more call of a descriptor's move *)
Moved(m) == [m EXCEPT !.nm = @ + 1]

SetUB(m, k) == IF m.ub = "none" THEN [m EXCEPT !.ub = k] ELSE m

IsLive(m, b, T) ==
    /\ b.kind = "ptr"
    /\ b.p \in Addr
    /\ m.heap[b.p].st = "live"
    /\ m.heap[b.p].ty = T

(* new T(v) *)
New(m, T, v) ==
    LET free == {p \in Addr : m.heap[p].st = "free"}
    IN  IF free = {}
        THEN [p |-> 0, m |-> [m EXCEPT !.full = TRUE, !.na = @ + 1]]
        ELSE LET p == CHOOSE q \in free : \A r \in free : q <= r
             IN  [p |-> p,
                  m |-> [m EXCEPT !.heap[p] = Live(T, v, Size(T)),
                                  !.na = @ + 1]]

\* delete of the T* the buffer stores
Delete(m, T, b, j) ==
    LET m1 == [m EXCEPT !.nf = @ + 1]
    IN  IF b.kind = "ptr" /\ b.p \in Addr
        THEN IF m1.heap[b.p].st = "free"
             THEN SetUB(m1, "double_free")
             ELSE LET m2 == [m1 EXCEPT !.heap[b.p] = Free]
                  IN  IF IsLive(m1, b, T) THEN m2
                      ELSE SetUB(m2, "delete_other_type")
        ELSE LET m2 == IF j.p \in Addr /\ m1.heap[j.p].st # "free"
                       THEN [m1 EXCEPT !.heap[j.p] = Free]
                       ELSE m1
             IN  SetUB([m2 EXCEPT !.jp = TRUE], "wild_delete")

\* the buffer read as a T
ReadInline(m, T, b, j) ==
    IF b.kind = "val" /\ b.ty = T /\ b.self
    THEN [v |-> b.v, m |-> m]
    ELSE [v |-> j.v,
          m |-> SetUB([m EXCEPT !.jv = TRUE],
                      IF b.kind = "val" /\ b.ty = T
                      THEN "dangling_interior" ELSE "read_other_type")]

\* the buffer read as a T*, dereferenced
ReadHeap(m, T, b, j) ==
    IF IsLive(m, b, T)
    THEN [v |-> m.heap[b.p].v, m |-> m]
    ELSE [v |-> j.v, m |-> SetUB([m EXCEPT !.jv = TRUE], "deref_other_type")]

\* the destructor of the T in the buffer
DestroyInline(m, T, b) ==
    IF b.kind = "val" /\ b.ty = T
    THEN IF b.self THEN m ELSE SetUB(m, "dangling_interior")
    ELSE SetUB(m, "destroy_other_type")

-----------------------------------------------------------------------------
(* TypeInfo<T>: the four storage operations.  from and to are buffer       *)
(* contents; each operation returns the new contents and machine state.    *)

(* Copy that hands the source's block to the destination when both are    *)
(* heap-backed, instead of allocating a copy                               *)
Copy_SharePointer(T, from, to, fromCap, toCap, m, j) ==
    IF T = Void THEN [to |-> to, m |-> m]
    ELSE IF NeedsAlloc(T, toCap)
    THEN IF NeedsAlloc(T, fromCap)
         THEN [to |-> from, m |-> m]
         ELSE LET r == ReadInline(m, T, from, j)
                  n == New(r.m, T, r.v)
              IN  [to |-> Ptr(n.p), m |-> n.m]
    ELSE IF NeedsAlloc(T, fromCap)
         THEN LET r == ReadHeap(m, T, from, j)
              IN  [to |-> Val(T, r.v), m |-> r.m]
         ELSE LET r == ReadInline(m, T, from, j)
              IN  [to |-> Val(T, r.v), m |-> r.m]

(* Copy that gives the destination the representation of the source *)
Copy_BySourceRepr(T, from, to, fromCap, toCap, m, j) ==
    IF T = Void THEN [to |-> to, m |-> m]
    ELSE IF NeedsAlloc(T, fromCap)
    THEN LET r == ReadHeap(m, T, from, j)
             n == New(r.m, T, r.v)
         IN  [to |-> Ptr(n.p), m |-> n.m]
    ELSE LET r == ReadInline(m, T, from, j)
         IN  [to |-> Val(T, r.v), m |-> r.m]

Copy(T, from, to, fromCap, toCap, m, j) ==
    IF T = Void THEN [to |-> to, m |-> m]
    ELSE IF NeedsAlloc(T, toCap)
    THEN IF NeedsAlloc(T, fromCap)
         THEN LET r == ReadHeap(m, T, from, j)
                  n == New(r.m, T, r.v)
              IN  [to |-> Ptr(n.p), m |-> n.m]
         ELSE LET r == ReadInline(m, T, from, j)
                  n == New(r.m, T, r.v)
              IN  [to |-> Ptr(n.p), m |-> n.m]
    ELSE IF NeedsAlloc(T, fromCap)
         THEN LET r == ReadHeap(m, T, from, j)
              IN  [to |-> Val(T, r.v), m |-> r.m]
         ELSE LET r == ReadInline(m, T, from, j)
              IN  [to |-> Val(T, r.v), m |-> r.m]

(* Move that, between two heap-backed representations, moves the value    *)
(* into a new block instead of handing over the pointer                    *)
Move_Reallocate(T, from, to, fromCap, toCap, m, j) ==
    IF T = Void THEN [from |-> from, to |-> to, m |-> Moved(m)]
    ELSE IF NeedsAlloc(T, toCap)
    THEN IF NeedsAlloc(T, fromCap)
         THEN LET r == ReadHeap(Moved(m), T, from, j)
                  n == New(r.m, T, r.v)
              IN  [from |-> from, to |-> Ptr(n.p),
                   m |-> Delete(n.m, T, from, j)]
         ELSE LET r == ReadInline(Moved(m), T, from, j)
                  n == New(r.m, T, r.v)
              IN  [from |-> Raw, to |-> Ptr(n.p),
                   m |-> DestroyInline(n.m, T, from)]
    ELSE IF NeedsAlloc(T, fromCap)
         THEN LET r == ReadHeap(Moved(m), T, from, j)
              IN  [from |-> from, to |-> Val(T, r.v),
                   m |-> Delete(r.m, T, from, j)]
         ELSE LET r == ReadInline(Moved(m), T, from, j)
              IN  [from |-> Raw, to |-> Val(T, r.v),
                   m |-> DestroyInline(r.m, T, from)]

Move(T, from, to, fromCap, toCap, m, j) ==
    IF T = Void THEN [from |-> from, to |-> to, m |-> Moved(m)]
    ELSE IF NeedsAlloc(T, toCap)
    THEN IF NeedsAlloc(T, fromCap)
         THEN \* the stored void* is copied whatever it points to
              [from |-> from,
               to |-> IF from.kind = "ptr" THEN from ELSE Raw,
               m |-> Moved(m)]
         ELSE LET r == ReadInline(Moved(m), T, from, j)
                  n == New(r.m, T, r.v)
              IN  [from |-> Raw, to |-> Ptr(n.p),
                   m |-> DestroyInline(n.m, T, from)]
    ELSE IF NeedsAlloc(T, fromCap)
         THEN LET r == ReadHeap(Moved(m), T, from, j)
              IN  [from |-> from, to |-> Val(T, r.v),
                   m |-> Delete(r.m, T, from, j)]
         ELSE LET r == ReadInline(Moved(m), T, from, j)
              IN  [from |-> Raw, to |-> Val(T, r.v),
                   m |-> DestroyInline(r.m, T, from)]

(* DestructReuseHeap that leaves the pointee alive *)
DestructReuseHeap_Skip(T, b, m) == m

\* destructReuseHeap: the pointee is destroyed, the block stays allocated
DestructReuseHeap(T, b, m) ==
    IF T = Void THEN m
    ELSE IF IsLive(m, b, T)
    THEN [m EXCEPT !.heap[b.p] = Dead(m.heap[b.p].sz)]
    ELSE SetUB(m, "destroy_other_type")

CleanUp(T, b, c, m, j) ==
    IF T = Void THEN [b |-> b, m |-> m]
    ELSE IF NeedsAlloc(T, c)
    THEN [b |-> b, m |-> Delete(m, T, b, j)]
    ELSE [b |-> Raw, m |-> DestroyInline(m, T, b)]

\* placement new of a T at the address the buffer stores
PlacementNewHeap(T, v, b, m) ==
    IF b.kind = "ptr" /\ b.p \in Addr /\ m.heap[b.p].st = "dead"
    THEN [m EXCEPT !.heap[b.p] = Live(T, v, m.heap[b.p].sz)]
    ELSE SetUB(m, "construct_in_other_block")

-----------------------------------------------------------------------------
(* sized_any<N>: an object is [info, buff]; N is passed alongside.         *)

Obj(i, b) == [info |-> i, buff |-> b]

(* A local buffer or temporary that goes out of scope: a live in-place     *)
(* object still in it is never destroyed.                                  *)
Drop(b, m) == IF b.kind = "val" THEN [m EXCEPT !.lost = @ + 1] ELSE m

(* sized_any() *)
ConstructDefault == Obj(Void, Raw)

(* ConstructValue without the NeedsAlloc branch: always in place *)
ConstructValue_InPlaceOnly(T, v, N, m) ==
    [o |-> Obj(T, Val(T, v)), m |-> m]

(* sized_any(ValueType&&), sized_any(in_place_type_t<ValueType>, args...) *)
ConstructValue(T, v, N, m) ==
    IF NeedsAlloc(T, N)
    THEN LET n == New(m, T, v) IN [o |-> Obj(T, Ptr(n.p)), m |-> n.m]
    ELSE [o |-> Obj(T, Val(T, v)), m |-> m]

(* sized_any(const sized_any<M>& other) *)
ConstructCopy(other, M, N, m, j) ==
    LET c == Copy(other.info, other.buff, Raw, M, N, m, j)
    IN  [o |-> Obj(other.info, c.to), m |-> c.m]

(* sized_any(sized_any<M>&& other) *)
ConstructMove(other, M, N, m, j) ==
    LET c == Move(other.info, other.buff, Raw, M, N, m, j)
    IN  [o |-> Obj(other.info, c.to),
         other |-> Obj(Void, c.from),
         m |-> c.m]

(* reset that only switches the descriptor to Void *)
reset_NoCleanUp(o, N, m, j) == [o |-> Obj(Void, o.buff), m |-> m]

(* reset() *)
reset(o, N, m, j) ==
    IF o.info = Void THEN [o |-> o, m |-> m]
    ELSE LET c == CleanUp(o.info, o.buff, N, m, j)
         IN  [o |-> Obj(Void, c.b), m |-> c.m]

(* ~sized_any(): reset(), then the buffer goes away *)
Destruct(o, N, m, j) ==
    LET r == reset(o, N, m, j) IN Drop(r.o.buff, r.m)

(* What three moves s1, s2, s3 made in this order leave: the contents of  *)
(* this's buffer (tb), of other's (ob) and of the local buffer, whose size *)
(* is tmpCap; nas is the number of new expressions each move evaluated.    *)
Moves(m, s1, s2, s3, tb, ob, tmpCap) ==
    [tb |-> tb, ob |-> ob, tmp |-> s3.from, m |-> s3.m, tmpCap |-> tmpCap,
     nas |-> <<s1.m.na - m.na, s2.m.na - s1.m.na, s3.m.na - s2.m.na>>]

(* if (info != other.info) std::swap(info, other.info), and the local     *)
(* buffer goes out of scope                                                *)
Exchange(this, other, r) ==
    [this  |-> Obj(IF this.info # other.info THEN other.info
                   ELSE this.info, r.tb),
     other |-> Obj(IF this.info # other.info THEN this.info
                   ELSE other.info, r.ob),
     m |-> Drop(r.tmp, r.m),
     tmpCap |-> r.tmpCap,
     nas |-> r.nas]

(* swap(sized_any& other), &other # this.  The three moves are s1, s2, s3 *)
(* in program order (s1 is the innermost binding).                         *)
swap(this, other, N, m, j) ==
    Exchange(this, other,
      CHOOSE r \in UNION UNION
        { { { Moves(m, s1, s2, s3, s3.to, s2.to, N) :
              s3 \in {Move(this.info, s1.to, s2.from, N, N, s2.m, j)} } :
            s2 \in {Move(this.info, this.buff, s1.from, N, N, s1.m, j)} } :
          s1 \in {Move(other.info, other.buff, Raw, N, N, m, j)} } : TRUE)

(* Cross-capacity swap through a temporary of the larger capacity *)
swapCross_LargeTmp(this, other, N, M, m, j) ==
    Exchange(this, other,
      IF M < N
      THEN CHOOSE r \in UNION UNION
             { { { Moves(m, s1, s2, s3, s2.to, s3.to, N) :
                   s3 \in {Move(this.info, s1.to, s2.from, N, M, s2.m, j)} } :
                 s2 \in {Move(other.info, other.buff, s1.from, M, N,
                              s1.m, j)} } :
               s1 \in {Move(this.info, this.buff, Raw, N, N, m, j)} } : TRUE
      ELSE CHOOSE r \in UNION UNION
             { { { Moves(m, s1, s2, s3, s3.to, s2.to, M) :
                   s3 \in {Move(this.info, s1.to, s2.from, M, N, s2.m, j)} } :
                 s2 \in {Move(this.info, this.buff, s1.from, N, M, s1.m, j)} } :
               s1 \in {Move(other.info, other.buff, Raw, M, M, m, j)} } : TRUE)

(* swap(sized_any<M>& other), M # N *)
swapCross(this, other, N, M, m, j) ==
    Exchange(this, other,
      IF M < N
      THEN CHOOSE r \in UNION UNION
             { { { Moves(m, s1, s2, s3, s2.to, s3.to, M) :
                   s3 \in {Move(this.info, s1.to, s2.from, M, M, s2.m, j)} } :
                 s2 \in {Move(other.info, other.buff, s1.from, M, N,
                              s1.m, j)} } :
               s1 \in {Move(this.info, this.buff, Raw, N, M, m, j)} } : TRUE
      ELSE CHOOSE r \in UNION UNION
             { { { Moves(m, s1, s2, s3, s3.to, s2.to, N) :
                   s3 \in {Move(this.info, s1.to, s2.from, N, N, s2.m, j)} } :
                 s2 \in {Move(this.info, this.buff, s1.from, N, M, s1.m, j)} } :
               s1 \in {Move(other.info, other.buff, Raw, M, N, m, j)} } : TRUE)

(* a.swap(b) for two distinct objects: overload resolution by capacity *)
swapAny(this, other, N, M, m, j) ==
    IF N = M THEN swap(this, other, N, m, j)
    ELSE swapCross(this, other, N, M, m, j)

(* a.swap(b); a.swap(b); *)
swapTwice(this, other, N, M, m, j) ==
    LET r1 == swapAny(this, other, N, M, m, j)
    IN  swapAny(r1.this, r1.other, N, M, r1.m, j)

(* operator=(const sized_any<M>& rhs), &rhs # this *)
AssignCopy(this, rhs, N, M, m, j) ==
    LET t == ConstructCopy(rhs, M, N, m, j)
        s == swap(t.o, this, N, t.m, j)
    IN  [this |-> s.other, m |-> Destruct(s.this, N, s.m, j)]

(* operator=(sized_any<M>&& rhs), &rhs # this *)
AssignMove(this, rhs, N, M, m, j) ==
    LET t == ConstructMove(rhs, M, N, m, j)
        s == swap(t.o, this, N, t.m, j)
    IN  [this |-> s.other, rhs |-> t.other,
         m |-> Destruct(s.this, N, s.m, j)]

(* operator=(ValueType&& rhs) *)
AssignValue(this, T, v, N, m, j) ==
    LET t == ConstructValue(T, v, N, m)
        s == swap(t.o, this, N, t.m, j)
    IN  [this |-> s.other, m |-> Destruct(s.this, N, s.m, j)]

(* The state an exception leaves behind when it is thrown while           *)
(* operator= builds its temporary, sized_any<N>(rhs).  can: the            *)
(* construction contains an expression that may throw.  A new-expression   *)
(* that throws keeps no block, a constructor that throws leaves no object, *)
(* and swap is not reached.                                                *)

(* TypeInfo<T>::Copy throws from new T(...) or from T's copy constructor *)
CopyThrows(T, from, fromCap, toCap, m, j) ==
    IF T = Void THEN [can |-> FALSE, m |-> m]
    ELSE LET r == IF NeedsAlloc(T, fromCap) THEN ReadHeap(m, T, from, j)
                  ELSE ReadInline(m, T, from, j)
         IN  [can |-> TRUE, m |-> r.m]

(* TypeInfo<T>::Move throws: only operator new can, in the one branch that *)
(* allocates, before the source is read; the constructions in place move   *)
(* a nothrow-movable T.                                                    *)
MoveThrows(T, from, fromCap, toCap, m, j) ==
    [can |-> T # Void /\ NeedsAlloc(T, toCap) /\ ~NeedsAlloc(T, fromCap),
     m |-> m]

(* operator=(const sized_any<M>&) that releases the destination's content *)
(* before it builds the new one                                            *)
AssignCopyThrows_ReleaseFirst(this, rhs, N, M, m, j) ==
    LET d == CleanUp(this.info, this.buff, N, m, j)
        c == CopyThrows(rhs.info, rhs.buff, M, N, d.m, j)
    IN  [can |-> c.can, this |-> Obj(this.info, d.b), rhs |-> rhs,
         m |-> c.m]

(* operator=(const sized_any<M>& rhs), &rhs # this, the copy throws *)
AssignCopyThrows(this, rhs, N, M, m, j) ==
    LET c == CopyThrows(rhs.info, rhs.buff, M, N, m, j)
    IN  [can |-> c.can, this |-> this, rhs |-> rhs, m |-> c.m]

(* operator=(sized_any<M>&& rhs), &rhs # this, the move throws before     *)
(* other.info is reset                                                     *)
AssignMoveThrows(this, rhs, N, M, m, j) ==
    LET c == MoveThrows(rhs.info, rhs.buff, M, N, m, j)
    IN  [can |-> c.can, this |-> this, rhs |-> rhs, m |-> c.m]

(* operator=(ValueType&& rhs), the construction of the value throws *)
AssignValueThrows(this, T, N, m, j) ==
    [can |-> TRUE, this |-> this, m |-> m]

(* Cross-capacity swap whose first move has destroyed its source when    *)
(* operator new throws                                                     *)
swapCrossThrows_AfterFirstMove(this, other, N, M, m, j) ==
    LET s1 == IF M < N
              THEN Move(this.info, this.buff, Raw, N, M, m, j)
              ELSE Move(other.info, other.buff, Raw, M, N, m, j)
        c == IF M < N
             THEN MoveThrows(this.info, this.buff, N, M, m, j)
             ELSE MoveThrows(other.info, other.buff, M, N, m, j)
    IN  [can |-> c.can,
         this |-> IF M < N THEN Obj(this.info, s1.from) ELSE this,
         other |-> IF M < N THEN other ELSE Obj(other.info, s1.from),
         m |-> c.m]

(* swap(sized_any<M>& other), M # N, when operator new throws in the      *)
(* first move                                                              *)
swapCrossThrows(this, other, N, M, m, j) ==
    LET c == IF M < N
             THEN MoveThrows(this.info, this.buff, N, M, m, j)
             ELSE MoveThrows(other.info, other.buff, M, N, m, j)
    IN  [can |-> c.can, this |-> this, other |-> other, m |-> c.m]

(* Where a pointer or a reference to the contained value points *)
NullLoc == [loc |-> "null", p |-> 0]
BuffLoc == [loc |-> "buff", p |-> 0]
HeapLoc(b) == IF b.kind = "ptr" THEN [loc |-> "heap", p |-> b.p]
              ELSE [loc |-> "wild", p |-> 0]

(* emplace that reuses the block whenever both types are heap-backed,     *)
(* whatever their sizes                                                    *)
emplace_NoSizeCheck(this, T, v, N, m, j) ==
    IF NeedsAlloc(T, N)
    THEN IF NeedsAlloc(this.info, N)
         THEN LET d == DestructReuseHeap(this.info, this.buff, m)
              IN  [o |-> Obj(T, this.buff),
                   m |-> PlacementNewHeap(T, v, this.buff, d),
                   reuse |-> TRUE,
                   loc |-> HeapLoc(this.buff)]
         ELSE LET c == CleanUp(this.info, this.buff, N, m, j)
                  n == New(c.m, T, v)
              IN  [o |-> Obj(T, Ptr(n.p)), m |-> n.m, reuse |-> FALSE,
                   loc |-> HeapLoc(Ptr(n.p))]
    ELSE LET c == CleanUp(this.info, this.buff, N, m, j)
         IN  [o |-> Obj(T, Val(T, v)), m |-> c.m, reuse |-> FALSE,
              loc |-> BuffLoc]

(* emplace<ValueType>(args...) *)
emplace(this, T, v, N, m, j) ==
    IF NeedsAlloc(T, N)
    THEN IF NeedsAlloc(this.info, N) /\ Size(this.info) = Size(T)
         THEN LET d == DestructReuseHeap(this.info, this.buff, m)
              IN  [o |-> Obj(T, this.buff),
                   m |-> PlacementNewHeap(T, v, this.buff, d),
                   reuse |-> TRUE,
                   loc |-> HeapLoc(this.buff)]
         ELSE LET c == CleanUp(this.info, this.buff, N, m, j)
                  n == New(c.m, T, v)
              IN  [o |-> Obj(T, Ptr(n.p)), m |-> n.m, reuse |-> FALSE,
                   loc |-> HeapLoc(Ptr(n.p))]
    ELSE LET c == CleanUp(this.info, this.buff, N, m, j)
         IN  [o |-> Obj(T, Val(T, v)), m |-> c.m, reuse |-> FALSE,
              loc |-> BuffLoc]

(* emplace<ValueType>(args...) when the construction of the new value     *)
(* throws (from operator new or from ValueType's constructor): the state   *)
(* the exception leaves behind.  The old content has been released, info   *)
(* has not been assigned, and a new-expression that throws keeps no block. *)
emplaceThrows(this, T, N, m, j) ==
    IF NeedsAlloc(T, N)
    THEN IF NeedsAlloc(this.info, N) /\ Size(this.info) = Size(T)
         THEN [o |-> this,
               m |-> DestructReuseHeap(this.info, this.buff, m)]
         ELSE LET c == CleanUp(this.info, this.buff, N, m, j)
              IN  [o |-> Obj(this.info, c.b), m |-> c.m]
    ELSE LET c == CleanUp(this.info, this.buff, N, m, j)
         IN  [o |-> Obj(this.info, c.b), m |-> c.m]

(* has_value() *)
has_value(o) == o.info # Void

(* type() *)
type(o) == o.info

(* any_cast that compares the descriptors' sizes, not their identity *)
any_cast_ptr_BySize(isNull, o, T, N) ==
    IF isNull \/ Size(o.info) # Size(T) THEN NullLoc
    ELSE IF NeedsAlloc(T, N) THEN HeapLoc(o.buff)
    ELSE BuffLoc

(* any_cast<T>(sized_any<N>* operand); isNull: operand is a null pointer *)
any_cast_ptr(isNull, o, T, N) ==
    IF isNull \/ o.info # T THEN NullLoc
    ELSE IF NeedsAlloc(T, N) THEN HeapLoc(o.buff)
    ELSE BuffLoc

(* any_cast that throws only on an empty container *)
any_cast_ThrowOnEmptyOnly(o, T, N, m, j) ==
    IF o.info = Void THEN [thrown |-> TRUE, v |-> 0, m |-> m]
    ELSE LET r == IF NeedsAlloc(T, N)
                  THEN ReadHeap(m, T, o.buff, j)
                  ELSE ReadInline(m, T, o.buff, j)
         IN  [thrown |-> FALSE, v |-> r.v, m |-> r.m]

(* any_cast<T>(sized_any<N>& operand): the value form *)
any_cast(o, T, N, m, j) ==
    LET casted == any_cast_ptr(FALSE, o, T, N)
    IN  IF casted # NullLoc
        THEN LET r == IF casted.loc = "buff"
                      THEN ReadInline(m, T, o.buff, j)
                      ELSE ReadHeap(m, T, o.buff, j)
             IN  [thrown |-> FALSE, v |-> r.v, m |-> r.m]
        ELSE [thrown |-> TRUE, v |-> 0, m |-> m]

(* std::max *)
Max(a, b) == IF a < b THEN b ELSE a

(* The capacity make_sized_any<T> would pick from sizeof(T) alone *)
MakeCapacity_SizeOnly(T) == Size(T)

(* The capacity of the container make_sized_any<T>(args...) returns *)
MakeCapacity(T) == Max(Size(T), PtrSize)

(* make_sized_any<N, T>(args...) *)
make_sized_any_N(N, T, v, m) == ConstructValue(T, v, N, m)

(* make_sized_any<T>(args...) *)
make_sized_any(T, v, m) ==
    [N |-> MakeCapacity(T)] @@ make_sized_any_N(MakeCapacity(T), T, v, m)

-----------------------------------------------------------------------------
(* The header src/sized_any.hpp: an earlier sized_any<N> whose assignment  *)
(* replaces the destination's content directly (replCopy, replMove) and    *)
(* whose swap exchanges the two buffers' bytes.  Its descriptors' copy and *)
(* move, its constructors, emplace, reset and destructor are those above   *)
(* (del is cleanUp, destroy on a heap-backed value is destructReuseHeap).  *)

(* getValueForCopying, getValueForMoving *)
getValue(T, from, fromCap, m, j) ==
    IF NeedsAlloc(T, fromCap) THEN ReadHeap(m, T, from, j)
    ELSE ReadInline(m, T, from, j)

(* TypeInfo<T>::destroy: the destructor alone *)
destroy(T, b, c, m) ==
    IF T = Void THEN [b |-> b, m |-> m]
    ELSE IF NeedsAlloc(T, c)
    THEN [b |-> b,
          m |-> IF IsLive(m, b, T)
                THEN [m EXCEPT !.heap[b.p] = Dead(m.heap[b.p].sz)]
                ELSE SetUB(m, "destroy_other_type")]
    ELSE [b |-> Raw, m |-> DestroyInline(m, T, b)]

(* TypeInfo<T>::del *)
del(T, b, c, m, j) ==
    IF T = Void THEN [b |-> b, m |-> m]
    ELSE IF NeedsAlloc(T, c)
    THEN [b |-> b, m |-> Delete(m, T, b, j)]
    ELSE [b |-> Raw, m |-> DestroyInline(m, T, b)]

(* new (to) T(v): a T constructed in the c bytes of the buffer itself *)
PlacementNewBuff(T, v, c, m) ==
    [b |-> Val(T, v),
     m |-> IF Size(T) > c THEN SetUB(m, "buffer_overflow") ELSE m]

(* TypeInfo<T>::replCopy; toInfo is the descriptor of what to holds *)
replCopy(T, from, to, toInfo, fromCap, toCap, m, j) ==
    IF T = Void THEN [to |-> to, m |-> m, reuse |-> FALSE]
    ELSE IF NeedsAlloc(T, toCap)
    THEN IF NeedsAlloc(toInfo, toCap) /\ Size(toInfo) = Size(T)
         THEN LET d == destroy(toInfo, to, toCap, m)
                  r == getValue(T, from, fromCap, d.m, j)
                  c == PlacementNewBuff(T, r.v, toCap, r.m)
              IN  [to |-> c.b, m |-> c.m, reuse |-> TRUE]
         ELSE LET d == del(toInfo, to, toCap, m, j)
                  r == getValue(T, from, fromCap, d.m, j)
                  n == New(r.m, T, r.v)
              IN  [to |-> Ptr(n.p), m |-> n.m, reuse |-> FALSE]
    ELSE LET d == del(toInfo, to, toCap, m, j)
             r == getValue(T, from, fromCap, d.m, j)
         IN  [to |-> Val(T, r.v), m |-> r.m, reuse |-> FALSE]

(* TypeInfo<T>::replMove *)
replMove(T, from, to, toInfo, fromCap, toCap, m, j) ==
    IF T = Void THEN [from |-> from, to |-> to, m |-> m, reuse |-> FALSE]
    ELSE IF NeedsAlloc(T, toCap)
    THEN IF NeedsAlloc(T, fromCap)
         THEN LET d == del(toInfo, to, toCap, m, j)
              IN  [from |-> from,
                   to |-> IF from.kind = "ptr" THEN from ELSE Raw,
                   m |-> d.m, reuse |-> FALSE]
         ELSE IF NeedsAlloc(toInfo, toCap) /\ Size(toInfo) = Size(T)
         THEN LET d == destroy(toInfo, to, toCap, m)
                  r == getValue(T, from, fromCap, d.m, j)
                  c == PlacementNewBuff(T, r.v, toCap, r.m)
                  e == del(T, from, fromCap, c.m, j)
              IN  [from |-> e.b, to |-> c.b, m |-> e.m, reuse |-> TRUE]
         ELSE LET d == del(toInfo, to, toCap, m, j)
                  r == getValue(T, from, fromCap, d.m, j)
                  n == New(r.m, T, r.v)
                  e == del(T, from, fromCap, n.m, j)
              IN  [from |-> e.b, to |-> Ptr(n.p), m |-> e.m,
                   reuse |-> FALSE]
    ELSE LET d == del(toInfo, to, toCap, m, j)
             r == getValue(T, from, fromCap, d.m, j)
             e == del(T, from, fromCap, r.m, j)
         IN  [from |-> e.b, to |-> Val(T, r.v), m |-> e.m, reuse |-> FALSE]

(* operator=(const sized_any<M>& rhs) of src/sized_any.hpp, &rhs # this *)
replAssignCopy(this, rhs, N, M, m, j) ==
    LET c == replCopy(rhs.info, rhs.buff, this.buff, this.info, M, N, m, j)
    IN  [this |-> Obj(rhs.info, c.to), m |-> c.m, reuse |-> c.reuse]

(* operator=(sized_any<M>&& rhs) of src/sized_any.hpp, &rhs # this *)
replAssignMove(this, rhs, N, M, m, j) ==
    LET c == replMove(rhs.info, rhs.buff, this.buff, this.info, M, N, m, j)
    IN  [this |-> Obj(rhs.info, c.to), rhs |-> Obj(Void, c.from),
         m |-> c.m, reuse |-> c.reuse]

(* swap(sized_any& other) of src/sized_any.hpp: std::swap of the two      *)
(* arrays of bytes, then of the two descriptor pointers                    *)
swapBytes(this, other, m) ==
    [this  |-> Obj(other.info, Relocated(other.buff)),
     other |-> Obj(this.info, Relocated(this.buff)),
     m |-> m]

-----------------------------------------------------------------------------
(* The state machine: two container slots, each constructed with either    *)
(* capacity and operated on in any order.  last describes the operation    *)
(* that led to the current state: its operands, the numbers of new and     *)
(* delete expressions it evaluated, and what it returned.                  *)

Gone == [ty |-> "gone", v |-> 0]
Empty == [ty |-> Void, v |-> 0]
Corrupt == [ty |-> "corrupt", v |-> 0]
Holding(T, v) == [ty |-> T, v |-> v]

(* What an object holds: nothing, a live T of value v in the               *)
(* representation its capacity requires, or neither.                       *)
ContentOf(o, N, h) ==
    IF o.info = Void THEN Empty
    ELSE IF NeedsAlloc(o.info, N)
    THEN IF IsLive([heap |-> h], o.buff, o.info)
         THEN Holding(o.info, h[o.buff.p].v)
         ELSE Corrupt
    ELSE IF o.buff.kind = "val" /\ o.buff.ty = o.info /\ o.buff.self
         THEN Holding(o.info, o.buff.v)
         ELSE Corrupt

At(c) == Obj(info[c], buff[c])

Content(c) == IF alive[c] THEN ContentOf(At(c), cap[c], heap) ELSE Gone

(* p is the block of a container whose descriptor says it is heap-backed *)
Owned(p) ==
    \E c \in Cont : /\ alive[c] /\ NeedsAlloc(info[c], cap[c])
                     /\ buff[c].kind = "ptr" /\ buff[c].p = p

(* The program has gone wrong: undefined behaviour, a live object          *)
(* abandoned in a local buffer, a descriptor naming a type the buffer does *)
(* not hold, or a heap block no container owns.  The exploration follows   *)
(* the program up to and including the first such state.                   *)
Defect ==
    \/ ub # "none"
    \/ last.lost > 0
    \/ \E c \in Cont : Content(c) = Corrupt
    \/ \E p \in Addr : heap[p].st # "free" /\ ~Owned(p)

Running == ~Defect

J0 == [v |-> 1, p |-> 0]

(* The junk an operation may meet, given what a run of it on J0 read *)
JunkFor(m) ==
    [v : IF m.jv THEN Values ELSE {J0.v},
     p : IF m.jp THEN 0..MaxBlocks ELSE {J0.p}]

Rec(op, x, y, T, v, m) ==
    [op |-> op, x |-> x, y |-> y, ty |-> T, v |-> v,
     na |-> m.na, nf |-> m.nf, nm |-> m.nm, lost |-> m.lost,
     reuse |-> FALSE, loc |-> NullLoc, thrown |-> FALSE, rv |-> 0,
     n |-> 0, tmp |-> 0, nas |-> <<0, 0, 0>>]

Commit(m, rec) ==
    /\ ~m.full
    /\ heap' = m.heap
    /\ ub' = m.ub
    /\ last' = rec

Init ==
    /\ alive = [c \in Cont |-> FALSE]
    /\ cap = [c \in Cont |-> CapSmall]
    /\ info = [c \in Cont |-> Void]
    /\ buff = [c \in Cont |-> Raw]
    /\ heap = [p \in Addr |-> Free]
    /\ ub = "none"
    /\ last = Rec("init", Null, Null, Void, 0, Machine(heap))

DefaultConstruct(x, N) ==
    /\ Running /\ ~alive[x]
    /\ alive' = [alive EXCEPT ![x] = TRUE]
    /\ cap' = [cap EXCEPT ![x] = N]
    /\ info' = [info EXCEPT ![x] = ConstructDefault.info]
    /\ buff' = [buff EXCEPT ![x] = ConstructDefault.buff]
    /\ Commit(Machine(heap), Rec("default_construct", x, Null, Void, 0,
                                 Machine(heap)))

ValueConstruct(x, N, T, v) ==
    /\ Running /\ ~alive[x]
    /\ \E r \in {ConstructValue(T, v, N, Machine(heap))} :
           /\ alive' = [alive EXCEPT ![x] = TRUE]
           /\ cap' = [cap EXCEPT ![x] = N]
           /\ info' = [info EXCEPT ![x] = r.o.info]
           /\ buff' = [buff EXCEPT ![x] = r.o.buff]
           /\ Commit(r.m, Rec("value_construct", x, Null, T, v, r.m))

InPlaceConstruct(x, N, T, v) ==
    /\ Running /\ ~alive[x]
    /\ \E r \in {ConstructValue(T, v, N, Machine(heap))} :
           /\ alive' = [alive EXCEPT ![x] = TRUE]
           /\ cap' = [cap EXCEPT ![x] = N]
           /\ info' = [info EXCEPT ![x] = r.o.info]
           /\ buff' = [buff EXCEPT ![x] = r.o.buff]
           /\ Commit(r.m, Rec("in_place_construct", x, Null, T, v, r.m))

CopyConstruct(x, N, y) ==
    /\ Running /\ ~alive[x] /\ alive[y]
    /\ \E j \in JunkFor(ConstructCopy(At(y), cap[y], N, Machine(heap), J0).m) :
         \E r \in {ConstructCopy(At(y), cap[y], N, Machine(heap), j)} :
             /\ alive' = [alive EXCEPT ![x] = TRUE]
             /\ cap' = [cap EXCEPT ![x] = N]
             /\ info' = [info EXCEPT ![x] = r.o.info]
             /\ buff' = [buff EXCEPT ![x] = r.o.buff]
             /\ Commit(r.m, Rec("copy_construct", x, y, Void, 0, r.m))

MoveConstruct(x, N, y) ==
    /\ Running /\ ~alive[x] /\ alive[y]
    /\ \E j \in JunkFor(ConstructMove(At(y), cap[y], N, Machine(heap), J0).m) :
         \E r \in {ConstructMove(At(y), cap[y], N, Machine(heap), j)} :
             /\ alive' = [alive EXCEPT ![x] = TRUE]
             /\ cap' = [cap EXCEPT ![x] = N]
             /\ info' = [info EXCEPT ![x] = r.o.info, ![y] = r.other.info]
             /\ buff' = [buff EXCEPT ![x] = r.o.buff, ![y] = r.other.buff]
             /\ Commit(r.m, Rec("move_construct", x, y, Void, 0, r.m))

Destroy(x) ==
    /\ Running /\ alive[x]
    /\ \E j \in JunkFor(Destruct(At(x), cap[x], Machine(heap), J0)) :
         \E m \in {Destruct(At(x), cap[x], Machine(heap), j)} :
             /\ alive' = [alive EXCEPT ![x] = FALSE]
             /\ cap' = [cap EXCEPT ![x] = CapSmall]
             /\ info' = [info EXCEPT ![x] = Void]
             /\ buff' = [buff EXCEPT ![x] = Raw]
             /\ Commit(m, Rec("destroy", x, Null, Void, 0, m))

Reset(x) ==
    /\ Running /\ alive[x]
    /\ \E j \in JunkFor(reset(At(x), cap[x], Machine(heap), J0).m) :
         \E r \in {reset(At(x), cap[x], Machine(heap), j)} :
             /\ info' = [info EXCEPT ![x] = r.o.info]
             /\ buff' = [buff EXCEPT ![x] = r.o.buff]
             /\ Commit(r.m, Rec("reset", x, Null, Void, 0, r.m))
    /\ UNCHANGED <<alive, cap>>

(* a = b without the identity test of operator=(const sized_any&) *)
CopyAssignOf_NoIdentityCheck(x, y, j) ==
    AssignCopy(At(x), At(y), cap[x], cap[y], Machine(heap), j)

(* a = b: operator=(const sized_any&) returns at once when &rhs == this *)
CopyAssignOf(x, y, j) ==
    IF x = y THEN [this |-> At(x), m |-> Machine(heap)]
    ELSE AssignCopy(At(x), At(y), cap[x], cap[y], Machine(heap), j)

CopyAssign(x, y) ==
    /\ Running /\ alive[x] /\ alive[y]
    /\ \E j \in JunkFor(CopyAssignOf(x, y, J0).m) :
         \E r \in {CopyAssignOf(x, y, j)} :
             /\ info' = [info EXCEPT ![x] = r.this.info]
             /\ buff' = [buff EXCEPT ![x] = r.this.buff]
             /\ Commit(r.m, Rec("copy_assign", x, y, Void, 0, r.m))
    /\ UNCHANGED <<alive, cap>>

MoveAssign(x, y) ==
    /\ Running /\ alive[x] /\ alive[y]
    /\ IF x = y
       THEN /\ UNCHANGED <<info, buff>>
            /\ Commit(Machine(heap), Rec("move_assign", x, y, Void, 0,
                                         Machine(heap)))
       ELSE \E j \in JunkFor(AssignMove(At(x), At(y), cap[x], cap[y],
                                        Machine(heap), J0).m) :
              \E r \in {AssignMove(At(x), At(y), cap[x], cap[y],
                                  Machine(heap), j)} :
                  /\ info' = [info EXCEPT ![x] = r.this.info,
                                          ![y] = r.rhs.info]
                  /\ buff' = [buff EXCEPT ![x] = r.this.buff,
                                          ![y] = r.rhs.buff]
                  /\ Commit(r.m, Rec("move_assign", x, y, Void, 0, r.m))
    /\ UNCHANGED <<alive, cap>>

ValueAssign(x, T, v) ==
    /\ Running /\ alive[x]
    /\ \E j \in JunkFor(AssignValue(At(x), T, v, cap[x], Machine(heap),
                                    J0).m) :
         \E r \in {AssignValue(At(x), T, v, cap[x], Machine(heap), j)} :
             /\ info' = [info EXCEPT ![x] = r.this.info]
             /\ buff' = [buff EXCEPT ![x] = r.this.buff]
             /\ Commit(r.m, Rec("value_assign", x, Null, T, v, r.m))
    /\ UNCHANGED <<alive, cap>>

Emplace(x, T, v) ==
    /\ Running /\ alive[x]
    /\ \E j \in JunkFor(emplace(At(x), T, v, cap[x], Machine(heap), J0).m) :
         \E r \in {emplace(At(x), T, v, cap[x], Machine(heap), j)} :
             /\ info' = [info EXCEPT ![x] = r.o.info]
             /\ buff' = [buff EXCEPT ![x] = r.o.buff]
             /\ Commit(r.m, [Rec("emplace", x, Null, T, v, r.m)
                                EXCEPT !.reuse = r.reuse, !.loc = r.loc])
    /\ UNCHANGED <<alive, cap>>

EmplaceThrows(x, T) ==
    /\ Running /\ alive[x]
    /\ \E j \in JunkFor(emplaceThrows(At(x), T, cap[x], Machine(heap),
                                      J0).m) :
         \E r \in {emplaceThrows(At(x), T, cap[x], Machine(heap), j)} :
             /\ info' = [info EXCEPT ![x] = r.o.info]
             /\ buff' = [buff EXCEPT ![x] = r.o.buff]
             /\ Commit(r.m, [Rec("emplace_throw", x, Null, T, 0, r.m)
                                EXCEPT !.thrown = TRUE])
    /\ UNCHANGED <<alive, cap>>

SwapOf(x, y, j) ==
    IF cap[x] = cap[y]
    THEN swap(At(x), At(y), cap[x], Machine(heap), j)
    ELSE swapCross(At(x), At(y), cap[x], cap[y], Machine(heap), j)

Swap(x, y) ==
    /\ Running /\ alive[x] /\ alive[y]
    /\ IF x = y
       THEN /\ UNCHANGED <<info, buff>>
            /\ Commit(Machine(heap), Rec("swap", x, y, Void, 0,
                                         Machine(heap)))
       ELSE \E j \in JunkFor(SwapOf(x, y, J0).m) :
              \E r \in {SwapOf(x, y, j)} :
                  /\ info' = [info EXCEPT ![x] = r.this.info,
                                          ![y] = r.other.info]
                  /\ buff' = [buff EXCEPT ![x] = r.this.buff,
                                          ![y] = r.other.buff]
                  /\ Commit(r.m, [Rec("swap", x, y, Void, 0, r.m)
                                     EXCEPT !.tmp = r.tmpCap,
                                            !.nas = r.nas])
    /\ UNCHANGED <<alive, cap>>

AnyCastPtr(x, T) ==
    /\ Running
    /\ x # Null => alive[x]
    /\ \E r \in {IF x = Null
                THEN any_cast_ptr(TRUE, ConstructDefault, T, CapSmall)
                ELSE any_cast_ptr(FALSE, At(x), T, cap[x])} :
           Commit(Machine(heap),
                  [Rec("any_cast_ptr", x, Null, T, 0, Machine(heap))
                     EXCEPT !.loc = r])
    /\ UNCHANGED <<alive, cap, info, buff>>

AnyCast(x, T) ==
    /\ Running /\ alive[x]
    /\ \E j \in JunkFor(any_cast(At(x), T, cap[x], Machine(heap), J0).m) :
         \E r \in {any_cast(At(x), T, cap[x], Machine(heap), j)} :
             Commit(r.m, [Rec("any_cast", x, Null, T, 0, r.m)
                            EXCEPT !.thrown = r.thrown, !.rv = r.v])
    /\ UNCHANGED <<alive, cap, info, buff>>

MakeSizedAny(x, T, v) ==
    /\ Running /\ ~alive[x]
    /\ \E r \in {make_sized_any(T, v, Machine(heap))} :
           /\ alive' = [alive EXCEPT ![x] = TRUE]
           /\ cap' = [cap EXCEPT ![x] = r.N]
           /\ info' = [info EXCEPT ![x] = r.o.info]
           /\ buff' = [buff EXCEPT ![x] = r.o.buff]
           /\ Commit(r.m, Rec("make_sized_any", x, Null, T, v, r.m))

MakeSizedAnyN(x, N, T, v) ==
    /\ Running /\ ~alive[x]
    /\ \E r \in {make_sized_any_N(N, T, v, Machine(heap))} :
           /\ alive' = [alive EXCEPT ![x] = TRUE]
           /\ cap' = [cap EXCEPT ![x] = N]
           /\ info' = [info EXCEPT ![x] = r.o.info]
           /\ buff' = [buff EXCEPT ![x] = r.o.buff]
           /\ Commit(r.m, [Rec("make_sized_any_n", x, Null, T, v, r.m)
                              EXCEPT !.n = N])

CopyAssignThrows(x, y) ==
    /\ Running /\ alive[x] /\ alive[y] /\ x # y
    /\ \E r \in {AssignCopyThrows(At(x), At(y), cap[x], cap[y],
                                 Machine(heap), J0)} :
           /\ r.can
           /\ info' = [info EXCEPT ![x] = r.this.info, ![y] = r.rhs.info]
           /\ buff' = [buff EXCEPT ![x] = r.this.buff, ![y] = r.rhs.buff]
           /\ Commit(r.m, [Rec("copy_assign_throw", x, y, Void, 0, r.m)
                              EXCEPT !.thrown = TRUE])
    /\ UNCHANGED <<alive, cap>>

MoveAssignThrows(x, y) ==
    /\ Running /\ alive[x] /\ alive[y] /\ x # y
    /\ \E r \in {AssignMoveThrows(At(x), At(y), cap[x], cap[y],
                                 Machine(heap), J0)} :
           /\ r.can
           /\ info' = [info EXCEPT ![x] = r.this.info, ![y] = r.rhs.info]
           /\ buff' = [buff EXCEPT ![x] = r.this.buff, ![y] = r.rhs.buff]
           /\ Commit(r.m, [Rec("move_assign_throw", x, y, Void, 0, r.m)
                              EXCEPT !.thrown = TRUE])
    /\ UNCHANGED <<alive, cap>>

ValueAssignThrows(x, T) ==
    /\ Running /\ alive[x]
    /\ \E r \in {AssignValueThrows(At(x), T, cap[x], Machine(heap), J0)} :
           /\ r.can
           /\ info' = [info EXCEPT ![x] = r.this.info]
           /\ buff' = [buff EXCEPT ![x] = r.this.buff]
           /\ Commit(r.m, [Rec("value_assign_throw", x, Null, T, 0, r.m)
                              EXCEPT !.thrown = TRUE])
    /\ UNCHANGED <<alive, cap>>

SwapThrows(x, y) ==
    /\ Running /\ alive[x] /\ alive[y] /\ cap[x] # cap[y]
    /\ \E r \in {swapCrossThrows(At(x), At(y), cap[x], cap[y],
                                Machine(heap), J0)} :
           /\ r.can
           /\ info' = [info EXCEPT ![x] = r.this.info, ![y] = r.other.info]
           /\ buff' = [buff EXCEPT ![x] = r.this.buff, ![y] = r.other.buff]
           /\ Commit(r.m, [Rec("swap_throw", x, y, Void, 0, r.m)
                              EXCEPT !.thrown = TRUE])
    /\ UNCHANGED <<alive, cap>>

ReplCopyAssign(x, y) ==
    /\ Running /\ alive[x] /\ alive[y] /\ x # y
    /\ \E j \in JunkFor(replAssignCopy(At(x), At(y), cap[x], cap[y],
                                       Machine(heap), J0).m) :
         \E r \in {replAssignCopy(At(x), At(y), cap[x], cap[y],
                                  Machine(heap), j)} :
             /\ info' = [info EXCEPT ![x] = r.this.info]
             /\ buff' = [buff EXCEPT ![x] = r.this.buff]
             /\ Commit(r.m, [Rec("repl_copy_assign", x, y, Void, 0, r.m)
                                EXCEPT !.reuse = r.reuse])
    /\ UNCHANGED <<alive, cap>>

ReplMoveAssign(x, y) ==
    /\ Running /\ alive[x] /\ alive[y] /\ x # y
    /\ \E j \in JunkFor(replAssignMove(At(x), At(y), cap[x], cap[y],
                                       Machine(heap), J0).m) :
         \E r \in {replAssignMove(At(x), At(y), cap[x], cap[y],
                                  Machine(heap), j)} :
             /\ info' = [info EXCEPT ![x] = r.this.info, ![y] = r.rhs.info]
             /\ buff' = [buff EXCEPT ![x] = r.this.buff, ![y] = r.rhs.buff]
             /\ Commit(r.m, [Rec("repl_move_assign", x, y, Void, 0, r.m)
                                EXCEPT !.reuse = r.reuse])
    /\ UNCHANGED <<alive, cap>>

SwapBytes(x, y) ==
    /\ Running /\ alive[x] /\ alive[y] /\ cap[x] = cap[y]
    /\ IF x = y
       THEN \* std::swap of an array with itself leaves its bytes in place
            /\ UNCHANGED <<info, buff>>
            /\ Commit(Machine(heap), Rec("swap_bytes", x, y, Void, 0,
                                         Machine(heap)))
       ELSE \E r \in {swapBytes(At(x), At(y), Machine(heap))} :
                /\ info' = [info EXCEPT ![x] = r.this.info,
                                        ![y] = r.other.info]
                /\ buff' = [buff EXCEPT ![x] = r.this.buff,
                                        ![y] = r.other.buff]
                /\ Commit(r.m, Rec("swap_bytes", x, y, Void, 0, r.m))
    /\ UNCHANGED <<alive, cap>>

(* Every mutating operation of the container *)
Next ==
    \/ \E x \in Cont, N \in Caps : DefaultConstruct(x, N)
    \/ \E x \in Cont, N \in Caps, T \in Types, v \in Values :
          ValueConstruct(x, N, T, v)
    \/ \E x \in Cont, y \in Cont, N \in Caps : CopyConstruct(x, N, y)
    \/ \E x \in Cont, y \in Cont, N \in Caps : MoveConstruct(x, N, y)
    \/ \E x \in Cont : Destroy(x)
    \/ \E x \in Cont : Reset(x)
    \/ \E x \in Cont, y \in Cont : CopyAssign(x, y)
    \/ \E x \in Cont, y \in Cont : MoveAssign(x, y)
    \/ \E x \in Cont, T \in Types, v \in Values : ValueAssign(x, T, v)
    \/ \E x \in Cont, T \in Types, v \in Values : Emplace(x, T, v)
    \/ \E x \in Cont, y \in Cont : Swap(x, y)

Spec == Init /\ [][Next]_vars

(* Construction, emplace, reset and destruction, observed through the      *)
(* casts                                                                   *)
NextCore ==
    \/ \E x \in Cont, N \in Caps : DefaultConstruct(x, N)
    \/ \E x \in Cont, N \in Caps, T \in Types, v \in Values :
          ValueConstruct(x, N, T, v)
    \/ \E x \in Cont, N \in Caps, T \in Types, v \in Values :
          InPlaceConstruct(x, N, T, v)
    \/ \E x \in Cont, y \in Cont, N \in Caps : CopyConstruct(x, N, y)
    \/ \E x \in Cont, y \in Cont, N \in Caps : MoveConstruct(x, N, y)
    \/ \E x \in Cont : Destroy(x)
    \/ \E x \in Cont : Reset(x)
    \/ \E x \in Cont, T \in Types, v \in Values : Emplace(x, T, v)
    \/ \E x \in Cont \cup {Null}, T \in Types : AnyCastPtr(x, T)
    \/ \E x \in Cont, T \in Types : AnyCast(x, T)

SpecCore == Init /\ [][NextCore]_vars

(* Construction, emplace, reset and destruction, and the emplace,         *)
(* assignments and cross-capacity swaps that end with an exception         *)
NextFail ==
    \/ \E x \in Cont, N \in Caps : DefaultConstruct(x, N)
    \/ \E x \in Cont, N \in Caps, T \in Types, v \in Values :
          ValueConstruct(x, N, T, v)
    \/ \E x \in Cont : Destroy(x)
    \/ \E x \in Cont : Reset(x)
    \/ \E x \in Cont, T \in Types, v \in Values : Emplace(x, T, v)
    \/ \E x \in Cont, T \in Types : EmplaceThrows(x, T)
    \/ \E x \in Cont, y \in Cont : CopyAssignThrows(x, y)
    \/ \E x \in Cont, y \in Cont : MoveAssignThrows(x, y)
    \/ \E x \in Cont, T \in Types : ValueAssignThrows(x, T)
    \/ \E x \in Cont, y \in Cont : Swap(x, y)
    \/ \E x \in Cont, y \in Cont : SwapThrows(x, y)

SpecFail == Init /\ [][NextFail]_vars

(* Containers made by make_sized_any, read and destroyed *)
NextMake ==
    \/ \E x \in Cont, T \in Types, v \in Values : MakeSizedAny(x, T, v)
    \/ \E x \in Cont, N \in Caps, T \in Types, v \in Values :
          MakeSizedAnyN(x, N, T, v)
    \/ \E x \in Cont, T \in Types : AnyCast(x, T)
    \/ \E x \in Cont : Destroy(x)

SpecMake == Init /\ [][NextMake]_vars

(* The operations of src/sized_any.hpp: direct-replace assignment and     *)
(* the swap of bytes                                                       *)
NextRepl ==
    \/ \E x \in Cont, N \in Caps : DefaultConstruct(x, N)
    \/ \E x \in Cont, N \in Caps, T \in Types, v \in Values :
          ValueConstruct(x, N, T, v)
    \/ \E x \in Cont : Destroy(x)
    \/ \E x \in Cont : Reset(x)
    \/ \E x \in Cont, T \in Types, v \in Values : Emplace(x, T, v)
    \/ \E x \in Cont, y \in Cont : ReplCopyAssign(x, y)
    \/ \E x \in Cont, y \in Cont : ReplMoveAssign(x, y)
    \/ \E x \in Cont, y \in Cont : SwapBytes(x, y)

SpecRepl == Init /\ [][NextRepl]_vars

TypeOK ==
    /\ alive \in [Cont -> BOOLEAN]
    /\ cap \in [Cont -> Caps \cup {MakeCapacity(T) : T \in Types}]
    /\ \A c \in Cont : cap[c] >= PtrSize
    /\ info \in [Cont -> Infos]
    /\ \A c \in Cont : buff[c].kind \in {"raw", "val", "ptr"}
    /\ \A p \in Addr : heap[p].st \in {"free", "live", "dead"}

-----------------------------------------------------------------------------
(* Properties *)

ConstructOps == {"value_construct", "in_place_construct"}

HeapBacked(c) == alive[c] /\ NeedsAlloc(info[c], cap[c])

(* C1: a container constructed from a T value, by the value constructor    *)
(* or the in-place constructor, inline or heap-backed, has a value, has    *)
(* type T, yields an equal value through any_cast<T> and fails any_cast    *)
(* to every other type.                                                    *)
C1_ConstructThenCast ==
    last.op \in ConstructOps =>
        LET x == last.x
        IN  /\ has_value(At(x))
            /\ type(At(x)) = last.ty
            /\ \A T \in Types :
                  LET r == any_cast(At(x), T, cap[x], Machine(heap), J0)
                  IN  IF T = last.ty
                      THEN ~r.thrown /\ r.v = last.v /\ r.m.ub = "none"
                      ELSE r.thrown

C1_Witness ==
    /\ last.op = "in_place_construct"
    /\ HeapBacked(last.x)
    /\ last.v = 2
    /\ Content(last.x) = Holding(last.ty, 2)

(* C8: the pointer form of any_cast returns a non-null pointer exactly    *)
(* when the operand is non-null and its descriptor is T's, and then the    *)
(* pointer designates the contained value; otherwise it returns null, and  *)
(* in no case does it raise an error or touch the heap.                    *)
C8_PointerCast ==
    last.op = "any_cast_ptr" =>
        LET x == last.x
            T == last.ty
        IN  /\ last.loc # NullLoc <=> (x # Null /\ info[x] = T)
            /\ last.loc # NullLoc =>
                  IF NeedsAlloc(T, cap[x])
                  THEN /\ last.loc = [loc |-> "heap", p |-> buff[x].p]
                       /\ IsLive([heap |-> heap], buff[x], T)
                  ELSE /\ last.loc = BuffLoc
                       /\ buff[x].kind = "val" /\ buff[x].ty = T
            /\ ~last.thrown /\ ub = "none"
            /\ last.na = 0 /\ last.nf = 0

C8_Witness ==
    /\ last.op = "any_cast_ptr"
    /\ last.x # Null
    /\ last.loc.loc = "heap"
    /\ Content(last.x) = Holding(last.ty, 2)

(* One step of the program as C9 requires it *)
C9_Step ==
    last'.op = "any_cast" =>
        LET x == last'.x
            T == last'.ty
        IN  /\ last'.thrown <=> info[x] # T
            /\ ~last'.thrown => Content(x) = Holding(T, last'.rv)
            /\ UNCHANGED <<alive, cap, info, buff, heap, ub>>

(* C9: the value form of any_cast throws exactly when the active type is   *)
(* not T (an empty container included), otherwise returns the contained    *)
(* value; in both cases the container and the heap are unchanged.          *)
C9_ValueCast == [][C9_Step]_vars

C9_Witness ==
    /\ last.op = "any_cast"
    /\ last.thrown
    /\ has_value(At(last.x))
    /\ Size(info[last.x]) = Size(last.ty)

Other(x) == CHOOSE c \in Cont : c # x

(* Content(c) in the state after the step *)
ContentNext(c) ==
    IF alive'[c] THEN ContentOf(Obj(info'[c], buff'[c]), cap'[c], heap')
    ELSE Gone

(* No two containers store the address of the same heap block *)
NoSharedBlock ==
    \A c, d \in Cont :
        (c # d /\ HeapBacked(c) /\ HeapBacked(d)) =>
            (buff[c].kind = "ptr" /\ buff[d].kind = "ptr"
             /\ buff[c].p # buff[d].p)

(* One step of the program as C6 requires it *)
C6_Step ==
    /\ last'.op = "copy_construct" =>
          LET x == last'.x
              y == last'.y
          IN  /\ Content(y) \notin {Gone, Corrupt}
              /\ ContentNext(y) = Content(y)
              /\ ContentNext(x) = Content(y)
              /\ NoSharedBlock'
              /\ ub' = "none"
    /\ (last.op = "copy_construct" /\ last'.op \in {"reset", "destroy"}) =>
          LET o == Other(last'.x)
          IN  /\ ContentNext(o) = Content(o)
              /\ ContentNext(o) \notin {Gone, Corrupt}
              /\ ContentNext(last'.x) \in {Gone, Empty}
              /\ ub' = "none"

(* C6: copy construction (equal or different capacities) leaves the       *)
(* source's type and value unchanged and gives the new container an equal  *)
(* value of the same type in a block of its own; resetting or destroying   *)
(* either of the two then leaves the other's value intact.                 *)
C6_CopyIndependent == [][C6_Step]_vars

C6_Witness ==
    /\ last.op \in {"reset", "destroy"}
    /\ LET o == Other(last.x)
       IN  /\ HeapBacked(o)
           /\ cap[o] = CapLarge
           /\ Content(o) = Holding(info[o], 2)
           /\ last.nf = 1

(* One step of the program as C10 requires it *)
C10_Step ==
    last'.op = "emplace" =>
        LET x == last'.x
            T == last'.ty
            N == cap[x]
            old == info[x]
            base == IF NeedsAlloc(T, N) THEN 1 ELSE 0
        IN  /\ last'.reuse <=> /\ NeedsAlloc(old, N)
                               /\ NeedsAlloc(T, N)
                               /\ Size(old) = Size(T)
            /\ last'.reuse =>
                  /\ last'.na = 0 /\ last'.nf = 0
                  /\ buff'[x] = buff[x]
                  /\ heap'[buff[x].p].sz = heap[buff[x].p].sz
            /\ ~last'.reuse =>
                  /\ last'.na = base
                  /\ last'.nf = IF NeedsAlloc(old, N) THEN 1 ELSE 0
            /\ last'.na <= base
            /\ ContentNext(x) = Holding(T, last'.v)
            /\ ub' = "none"

(* C10: emplace<T> reuses the container's heap block, with no new and no   *)
(* delete, exactly when the current content is heap-backed at N, T needs   *)
(* allocation at N and the two types have equal size; otherwise it         *)
(* releases the old content (one delete iff it was heap-backed) and        *)
(* allocates once iff T needs allocation at N.  It never allocates more    *)
(* than release-then-allocate would.                                       *)
C10_EmplaceReuse == [][C10_Step]_vars

C10_Witness ==
    /\ last.op = "emplace"
    /\ last.reuse
    /\ last.ty = "Thr"
    /\ cap[last.x] = CapSmall
    /\ last.na = 0 /\ last.nf = 0
    /\ Content(last.x) = Holding("Thr", 2)

AssignOps == {"copy_assign", "move_assign", "value_assign"}

(* Every allocated heap block belongs to a container *)
NoLeak == \A p \in Addr : heap[p].st # "free" => Owned(p)

(* One step of the program as C2 requires it *)
C2_Step ==
    (last'.op = "swap" /\ last'.x # last'.y /\ cap[last'.x] = cap[last'.y])
        => /\ ContentNext(last'.x) = Content(last'.y)
           /\ ContentNext(last'.y) = Content(last'.x)

(* C2: after a.swap(b) on two distinct containers of the same capacity, a  *)
(* holds exactly the type and value b held and b exactly what a held, for  *)
(* every combination of contents.                                          *)
C2_SameCapacitySwap == [][C2_Step]_vars

(* One step of the program as C3 requires it *)
C3_Step ==
    (last'.op \in AssignOps /\ last'.x # last'.y) =>
        LET x == last'.x
            y == last'.y
        IN  /\ ub' = "none"
            /\ ContentNext(x) = IF last'.op = "value_assign"
                                THEN Holding(last'.ty, last'.v)
                                ELSE Content(y)
            /\ last'.op = "copy_assign" => ContentNext(y) = Content(y)

(* C3: after an assignment to a (copy or move from a container of any      *)
(* capacity, or a plain value) a holds the operand's type and value, for   *)
(* every prior content of a; after a copy-assignment the right-hand side   *)
(* is unchanged.                                                           *)
C3_AssignReplaces == [][C3_Step]_vars

(* One step of the program as C4 requires it *)
C4_Step ==
    (last'.op \in AssignOps /\ last'.x # last'.y
       /\ Content(last'.x) # Empty) =>
        LET x == last'.x
        IN  /\ ub' = "none"
            /\ last'.lost = 0
            /\ HeapBacked(x) => heap'[buff[x].p].st = "free"
            /\ NoLeak'

(* C4: an assignment that overwrites a non-empty container releases the    *)
(* previous content exactly once through its own descriptor: the old       *)
(* value is destroyed, its block (if any) is freed, nothing is left        *)
(* behind and nothing is released through another type's descriptor.       *)
C4_AssignReleasesOnce == [][C4_Step]_vars

(* One step of the program as C5 requires it *)
C5_Step ==
    (last'.op \in {"move_construct", "move_assign"} /\ last'.x # last'.y) =>
        /\ ub' = "none"
        /\ ContentNext(last'.y) = Empty
        /\ ContentNext(last'.x) = Content(last'.y)

(* C5: after a move construction or a move assignment from a source of     *)
(* capacity M into a destination of capacity N, the source is empty and    *)
(* the destination holds the value the source held.                        *)
C5_MoveEmptiesSource == [][C5_Step]_vars

(* C7: over any sequence of operations each allocated heap block is owned  *)
(* by exactly one container, no block is freed twice or freed through a    *)
(* pointer that is not its own, and once every container is destroyed no   *)
(* block remains allocated.                                                *)
C7_HeapOwnership ==
    /\ \A p \in Addr :
          heap[p].st # "free" =>
              Cardinality({c \in Cont : /\ HeapBacked(c)
                                        /\ buff[c].kind = "ptr"
                                        /\ buff[c].p = p}) = 1
    /\ ub \notin {"double_free", "wild_delete", "delete_other_type"}
    /\ (\A c \in Cont : ~alive[c]) => \A p \in Addr : heap[p].st = "free"

(* One step of the program as C11 requires it *)
C11_Step ==
    last'.op = "emplace" =>
        LET x == last'.x
            T == last'.ty
        IN  /\ ContentNext(x) = Holding(T, last'.v)
            /\ last'.loc # NullLoc
            /\ last'.loc = any_cast_ptr(FALSE, Obj(info'[x], buff'[x]), T,
                                        cap'[x])
            /\ ub' = "none"
            /\ last'.lost = 0
            /\ NoLeak'
            /\ (HeapBacked(x) /\ ~last'.reuse) => last'.nf = 1
            /\ ~HeapBacked(x) => last'.nf = 0

(* C11: after emplace<T>(args) on a container in any prior state the       *)
(* container holds exactly one value of type T built from args, the        *)
(* returned reference designates that value (the one any_cast returns),    *)
(* and the previous value has been destroyed exactly once.                 *)
C11_EmplaceResult == [][C11_Step]_vars

C11_Witness ==
    /\ last.op = "emplace"
    /\ last.nf = 1 /\ last.na = 0
    /\ last.loc = BuffLoc
    /\ Content(last.x) = Holding("Small", 2)

(* One step of the program as C12 requires it *)
C12_Step ==
    last'.op = "emplace_throw" =>
        LET x == last'.x
        IN  /\ ContentNext(x) = Content(x)
            /\ ContentNext(x) \notin {Gone, Corrupt}
            /\ info'[x] = info[x]
            /\ heap' = heap
            /\ ub' = "none"

(* C12: if allocating for the new value or running its constructor fails   *)
(* during emplace<T>, the container is left in its prior, valid state,     *)
(* with the same active type and the same live value.                      *)
C12_EmplaceStrongSafety == [][C12_Step]_vars

(* One step of the program as C13 requires it *)
C13_Step ==
    (last'.op = "swap" /\ cap[last'.x] # cap[last'.y]) =>
        /\ ContentNext(last'.x) = Content(last'.y)
        /\ ContentNext(last'.y) = Content(last'.x)
        /\ last'.lost = 0

(* C13: after a.swap(b) on containers of different capacities, in both     *)
(* directions and for every combination of contents, a holds the type and  *)
(* value b held and b the type and value a held, each in the               *)
(* representation its own capacity requires.                               *)
C13_CrossCapacitySwap == [][C13_Step]_vars

(* C14: swap is its own inverse: from any state of two distinct live       *)
(* containers, a.swap(b) followed by a.swap(b) restores the type and the   *)
(* value of both, abandons no object and stays defined.                    *)
C14_SwapInvolution ==
    \A x, y \in Cont :
        (Running /\ x # y /\ alive[x] /\ alive[y]) =>
            \A j \in Junk :
                LET r == swapTwice(At(x), At(y), cap[x], cap[y],
                                   Machine(heap), j)
                IN  /\ ContentOf(r.this, cap[x], r.m.heap) = Content(x)
                    /\ ContentOf(r.other, cap[y], r.m.heap) = Content(y)
                    /\ r.m.ub = "none"
                    /\ r.m.lost = 0

(* One step of the program as C15 requires it *)
C15_Step ==
    (last'.op \in {"copy_assign", "move_assign", "swap"}
       /\ last'.x = last'.y) =>
        /\ UNCHANGED <<alive, cap, info, buff, heap, ub>>
        /\ last'.na = 0 /\ last'.nf = 0 /\ last'.lost = 0

(* C15: self-assignment (copy or move) and self-swap leave the container's *)
(* type, value and heap block unchanged, with no allocation, no            *)
(* destruction and no free.                                                *)
C15_SelfAssignSelfSwap == [][C15_Step]_vars

C15_Witness ==
    /\ last.op = "copy_assign"
    /\ last.x = last.y
    /\ HeapBacked(last.x)
    /\ Content(last.x) = Holding(info[last.x], 2)

(* One step of the program as C16 requires it *)
C16_Step ==
    last'.op = "reset" =>
        LET x == last'.x
        IN  /\ ContentNext(x) = Empty
            /\ ~has_value(Obj(info'[x], buff'[x]))
            /\ type(Obj(info'[x], buff'[x])) = Void
            /\ ub' = "none"
            /\ last'.lost = 0 /\ last'.na = 0
            /\ last'.nf = IF HeapBacked(x) THEN 1 ELSE 0
            /\ HeapBacked(x) => heap'[buff[x].p].st = "free"
            /\ NoLeak'
            /\ ContentNext(Other(x)) = Content(Other(x))
            /\ Content(x) = Empty =>
                  UNCHANGED <<alive, cap, info, buff, heap, ub>>

(* C16: reset() releases the current value exactly once (its heap block    *)
(* too if it is heap-backed) and leaves the container empty, with type     *)
(* void; on an already-empty container it changes nothing and releases     *)
(* nothing.                                                                *)
C16_ResetIdempotent == [][C16_Step]_vars

C16_Witness ==
    /\ last.op = "reset"
    /\ last.nf = 1
    /\ Content(last.x) = Empty
    /\ \A p \in Addr : heap[p].st = "free"

(* c owns a live value: one of its descriptor's type, where its capacity   *)
(* puts it                                                                 *)
OwnsLiveValue(c) ==
    \E T \in Types, v \in Values : Content(c) = Holding(T, v)

(* C17: in every reachable state of every live container has_value() is    *)
(* true iff the descriptor is not the Void descriptor iff the container    *)
(* owns a live value; a default-constructed container is empty and its     *)
(* type() is void.                                                         *)
C17_DescriptorInvariant ==
    /\ \A c \in Cont :
          alive[c] =>
              /\ info[c] \in Infos
              /\ has_value(At(c)) <=> info[c] # Void
              /\ info[c] # Void <=> OwnsLiveValue(c)
    /\ last.op = "default_construct" =>
          /\ ~has_value(At(last.x))
          /\ type(At(last.x)) = Void

(* One step of the program as C18 requires it *)
C18_Step ==
    last'.op = "move_construct" =>
        LET x == last'.x
            y == last'.y
            T == info[y]
            M == cap[y]
            N == cap'[x]
        IN  /\ last'.na = IF T # Void /\ ~NeedsAlloc(T, M) /\ NeedsAlloc(T, N)
                          THEN 1 ELSE 0
            /\ M <= N => last'.na = 0
            /\ (T # Void /\ NeedsAlloc(T, M) /\ NeedsAlloc(T, N)) =>
                  /\ buff'[x] = buff[y]
                  /\ heap' = heap
                  /\ last'.nf = 0
            /\ ub' = "none"

(* C18: move construction from capacity M into capacity N allocates iff    *)
(* the content is inline at M and needs allocation at N, hence never when  *)
(* M <= N; a value heap-backed on both sides is handed over by pointer,    *)
(* with no allocation and no constructor call.                             *)
C18_MoveAllocation == [][C18_Step]_vars

C18_Witness ==
    /\ last.op = "move_construct"
    /\ cap[last.x] = cap[last.y]
    /\ HeapBacked(last.x)
    /\ last.na = 0
    /\ Content(last.x) = Holding(info[last.x], 2)
    /\ Content(last.y) = Empty

(* C19: after any sequence of operations a non-empty live container        *)
(* holding type T has exactly one live value in exactly one                *)
(* representation: in the buffer iff T fits N and is nothrow-movable,      *)
(* otherwise behind a pointer to one live heap T that no other container   *)
(* stores.                                                                 *)
C19_Representation ==
    \A c \in Cont :
        (alive[c] /\ info[c] # Void) =>
            LET T == info[c]
                inline == Size(T) <= cap[c] /\ NothrowMove(T)
            IN  /\ inline => (buff[c].kind = "val" /\ buff[c].ty = T)
                /\ ~inline =>
                      /\ buff[c].kind = "ptr"
                      /\ buff[c].p \in Addr
                      /\ heap[buff[c].p].st = "live"
                      /\ heap[buff[c].p].ty = T
                      /\ \A d \in Cont \ {c} :
                            (HeapBacked(d) /\ buff[d].kind = "ptr") =>
                                buff[d].p # buff[c].p

C21_Step ==
    (last'.op \in {"swap", "swap_bytes"} /\ last'.x # last'.y) =>
        /\ ContentNext(last'.x) = Content(last'.y)
        /\ ContentNext(last'.y) = Content(last'.x)

(* C21: in every variant of the header swap relocates the two values       *)
(* through their descriptors' move, never as bytes, so that after          *)
(* a.swap(b) each container holds the value the other held, valid in its   *)
(* new storage even when it refers to its own inline storage.              *)
C21_SwapRelocates == [][C21_Step]_vars

(* One step of the program as C22 requires it *)
C22_Step ==
    (/\ last'.op \in {"copy_assign", "move_assign",
                      "repl_copy_assign", "repl_move_assign"}
     /\ last'.x # last'.y
     /\ Content(last'.y) = Empty
     /\ OwnsLiveValue(last'.x)) =>
        LET x == last'.x
        IN  /\ ContentNext(x) = Empty
            /\ ContentNext(last'.y) = Empty
            /\ ub' = "none"
            /\ last'.lost = 0
            /\ last'.nf = IF HeapBacked(x) THEN 1 ELSE 0
            /\ HeapBacked(x) => heap'[buff[x].p].st = "free"
            /\ NoLeak'

(* C22: assigning an empty container to a non-empty one (copy or move,     *)
(* same or different capacity) leaves the destination empty, releases its  *)
(* previous value exactly once through its own descriptor, and leaves no   *)
(* container, the internal temporary included, whose descriptor names a    *)
(* type its buffer does not hold.                                          *)
C22_AssignEmpty == [][C22_Step]_vars

(* One step of the program as C23 requires it *)
C23_Step ==
    (/\ last'.op \in {"repl_copy_assign", "repl_move_assign"}
     /\ info[last'.y] # Void) =>
        LET x == last'.x
            y == last'.y
            N == cap[x]
            old == info[x]
            T == info[y]
            both == /\ NeedsAlloc(old, N) /\ NeedsAlloc(T, N)
                    /\ Size(old) = Size(T)
            nfSrc == IF /\ last'.op = "repl_move_assign"
                        /\ NeedsAlloc(T, cap[y]) /\ ~NeedsAlloc(T, N)
                     THEN 1 ELSE 0
        IN  /\ ContentNext(x) = Content(y)
            /\ ub' = "none"
            /\ NoLeak'
            /\ both => /\ last'.reuse
                       /\ buff'[x] = buff[x]
                       /\ last'.na = 0 /\ last'.nf = 0
            /\ ~both => /\ ~last'.reuse
                        /\ last'.nf = nfSrc + IF HeapBacked(x) THEN 1 ELSE 0

(* C23: direct-replace assignment (replCopy, replMove of src/sized_any.hpp) *)
(* destroys the old value in place and constructs the new one inside the   *)
(* destination's existing heap block, the buffer keeping the pointer to    *)
(* that block, when the old and the incoming type both need allocation at  *)
(* the destination capacity and have equal size; in every other case the   *)
(* old representation is fully released before the new one is built.       *)
C23_DirectReplace == [][C23_Step]_vars

(* One step of the program as C24 requires it *)
C24_Step ==
    (last'.op = "swap" /\ cap[last'.x] # cap[last'.y]) =>
        LET x == last'.x
            y == last'.y
            small == IF cap[x] < cap[y] THEN x ELSE y
            large == IF cap[x] < cap[y] THEN y ELSE x
            T == info[large]
            leaving == /\ T # Void
                       /\ ~NeedsAlloc(T, cap[large])
                       /\ NeedsAlloc(T, cap[small])
        IN  /\ last'.tmp = cap[small]
            /\ last'.nm = 3
            /\ last'.na <= 1
            /\ last'.na = 1 <=> leaving
            /\ last'.nas[2] = 0

(* C24: a swap between containers of different capacities goes through a   *)
(* temporary buffer of the smaller capacity, calls a descriptor's move      *)
(* exactly three times and allocates at most once: exactly when the value   *)
(* leaving the larger container is inline there and needs allocation at    *)
(* the smaller capacity.  The move into the larger container (the second)  *)
(* never allocates.                                                        *)
C24_CrossSwapAllocation == [][C24_Step]_vars

C24_Witness ==
    /\ last.op = "swap"
    /\ cap[last.x] = CapLarge /\ cap[last.y] = CapSmall
    /\ last.na = 1 /\ last.nm = 3 /\ last.tmp = CapSmall
    /\ last.nas = <<1, 0, 0>>
    /\ ub = "none"
    /\ Content(last.y) = Holding("Mid", 2)
    /\ Content(last.x) = Holding("Big", 1)

AssignThrowOps ==
    {"copy_assign_throw", "move_assign_throw", "value_assign_throw"}

(* One step of the program as C25 requires it *)
C25_Step ==
    last'.op \in AssignThrowOps =>
        /\ \A c \in Cont :
              /\ ContentNext(c) = Content(c)
              /\ ContentNext(c) # Corrupt
              /\ info'[c] = info[c]
        /\ heap' = heap
        /\ ub' = "none"
        /\ last'.op = "move_assign_throw" => cap[last'.y] > cap[last'.x]

(* C25: swap-based assignment is failure-safe: when building the temporary *)
(* fails (a copy constructor, a value constructor or an allocation, in a   *)
(* copy assignment, a value assignment or a move assignment from a larger  *)
(* capacity), the destination keeps its type and value and the right-hand  *)
(* container keeps its value; nothing has been exchanged.                  *)
C25_AssignFailureSafe == [][C25_Step]_vars

C25_Witness ==
    /\ last.op = "move_assign_throw"
    /\ last.thrown
    /\ Content(last.y) = Holding("Mid", 2)
    /\ Content(last.x) = Holding("Big", 1)

(* Copy construction of a heap-backed value into a container where it is  *)
(* heap-backed too                                                         *)
CopyHeapToHeap ==
    /\ last'.op = "copy_construct"
    /\ info[last'.y] # Void
    /\ NeedsAlloc(info[last'.y], cap[last'.y])
    /\ NeedsAlloc(info[last'.y], cap'[last'.x])

(* One step of the program as C26 states it *)
C26_ReuseStep ==
    CopyHeapToHeap =>
        /\ buff'[last'.x] = buff[last'.y]
        /\ last'.na = 0

(* C26 as stated: copy construction from a heap-backed source into a       *)
(* destination that is heap-backed for that type reuses the source's       *)
(* pointer and performs no allocation.                                     *)
C26_CopyReusesPointer == [][C26_ReuseStep]_vars

(* One step of the program as the amended C26 requires it *)
C26_Step ==
    CopyHeapToHeap =>
        LET x == last'.x
            y == last'.y
        IN  /\ last'.na = 1 /\ last'.nf = 0
            /\ buff'[y] = buff[y]
            /\ heap'[buff[y].p] = heap[buff[y].p]
            /\ buff'[x].kind = "ptr"
            /\ buff'[x].p # buff[y].p
            /\ heap[buff'[x].p].st = "free"
            /\ ContentNext(x) = Content(y)
            /\ ContentNext(y) = Content(y)
            /\ Content(y) \notin {Gone, Corrupt}
            /\ ub' = "none"

(* C26, amended: copy construction from a heap-backed source into a        *)
(* destination that is heap-backed for that type allocates exactly one     *)
(* new block holding a copy of the value; the destination stores that      *)
(* block's address, never the source's pointer, and the source keeps its   *)
(* pointer and its block.                                                  *)
C26_CopyHeapToHeapAllocates == [][C26_Step]_vars

C26_Witness ==
    /\ last.op = "copy_construct"
    /\ cap[last.y] = CapLarge /\ cap[last.x] = CapSmall
    /\ HeapBacked(last.x) /\ HeapBacked(last.y)
    /\ last.na = 1
    /\ buff[last.x].p # buff[last.y].p
    /\ Content(last.x) = Holding("Big", 2)
    /\ Content(last.y) = Holding("Big", 2)

(* One step of the program as C27 requires it *)
C27_Step ==
    last'.op = "copy_construct" =>
        LET x == last'.x
            y == last'.y
            T == info[y]
            N == cap'[x]
        IN  /\ last'.na = IF NeedsAlloc(T, N) THEN 1 ELSE 0
            /\ last'.nf = 0
            /\ info'[x] = T
            /\ T # Void =>
                  IF NeedsAlloc(T, N)
                  THEN IsLive([heap |-> heap'], buff'[x], T)
                  ELSE buff'[x].kind = "val" /\ buff'[x].ty = T
            /\ ContentNext(x) = Content(y)
            /\ ContentNext(y) = Content(y)
            /\ buff'[y] = buff[y]
            /\ ub' = "none"

(* C27: copy construction of a sized_any<N> from a sized_any<M> reads the  *)
(* source in the representation needs_alloc(M) dictates and writes the     *)
(* destination in the one needs_alloc(N) dictates, in all four             *)
(* combinations; it allocates exactly one block if the type needs          *)
(* allocation at N and none otherwise, however the source stores the       *)
(* value.                                                                  *)
C27_CopyRepresentation == [][C27_Step]_vars

C27_Witness ==
    /\ last.op = "copy_construct"
    /\ cap[last.y] = CapSmall /\ cap[last.x] = CapLarge
    /\ HeapBacked(last.y) /\ ~HeapBacked(last.x)
    /\ last.na = 0
    /\ buff[last.x].kind = "val"
    /\ Content(last.x) = Holding("Mid", 2)
    /\ Content(last.y) = Holding("Mid", 2)

(* Every block a container owns, and every block holding a live value,   *)
(* has the size of the type it is used for                                 *)
BlockSizes ==
    /\ \A p \in Addr : heap[p].st = "live" => heap[p].sz = Size(heap[p].ty)
    /\ \A c \in Cont :
          (/\ HeapBacked(c) /\ buff[c].kind = "ptr" /\ buff[c].p \in Addr
           /\ heap[buff[c].p].st # "free") =>
              heap[buff[c].p].sz = Size(info[c])

ReplaceOps == {"emplace", "repl_copy_assign", "repl_move_assign"}

(* One step of the program as C28 requires it *)
C28_Step ==
    /\ BlockSizes'
    /\ last'.op \in ReplaceOps =>
          LET x == last'.x
              N == cap[x]
              old == info[x]
              T == info'[x]
          IN  /\ last'.reuse => Size(old) = Size(T)
              /\ (/\ NeedsAlloc(old, N) /\ NeedsAlloc(T, N)
                  /\ Size(old) # Size(T)) =>
                    /\ ~last'.reuse
                    /\ last'.nf = 1
                    /\ heap'[buff[x].p].st = "free" \/ last'.na = 1
                    /\ last'.na = IF /\ last'.op = "repl_move_assign"
                                     /\ NeedsAlloc(T, cap[last'.y])
                                  THEN 0 ELSE 1
                    /\ heap'[buff'[x].p].sz = Size(T)

C29_DescriptorMatchesBuffer == ub = "none"

(* One step of the program as C30 requires it *)
C30_Step ==
    /\ (last'.op = "swap" /\ cap[last'.x] # cap[last'.y]) =>
          /\ last'.nas[2] = 0 /\ last'.nas[3] = 0
          /\ last'.na = last'.nas[1]
    /\ last'.op = "swap_throw" =>
          /\ swapCross(At(last'.x), At(last'.y), cap[last'.x], cap[last'.y],
                       Machine(heap), J0).nas[1] = 1
          /\ \A c \in Cont :
                /\ ContentNext(c) = Content(c)
                /\ ContentNext(c) # Corrupt
                /\ info'[c] = info[c]
                /\ buff'[c] = buff[c]
          /\ heap' = heap
          /\ ub' = "none"

(* C30: the only step of a cross-capacity swap that can allocate is the    *)
(* first of its three moves, the one into the temporary, and if that       *)
(* allocation fails neither container has been modified: the value the     *)
(* move reads has not been moved from or destroyed.                        *)
C30_CrossSwapAllocFailure == [][C30_Step]_vars

C30_Witness ==
    /\ last.op = "swap_throw"
    /\ last.thrown
    /\ cap[last.x] = CapSmall /\ cap[last.y] = CapLarge
    /\ Content(last.y) = Holding("Mid", 2)
    /\ Content(last.x) = Holding("Small", 1)

====
